---- MODULE Spec2Model ----
(***************************************************************************)
(* A model of src/app.js: an Express application with signup, login,       *)
(* session authentication (express-session on a connect-mongo store), a    *)
(* members page and an admin panel that promotes and demotes users.        *)
(*                                                                         *)
(* Every request is a little process: the session middleware loads its     *)
(* session, the handler runs up to its first await, every await is a step  *)
(* of its own, and the end of the response commits the session.  Requests  *)
(* interleave at those points.                                             *)
(***************************************************************************)
EXTENDS Integers, Sequences, FiniteSets, TLC

(* ------------------------------ bounds -------------------------------- *)

\* Documents the 1537users collection may hold.
MaxUsers == 3
\* Session identifiers the middleware may generate.
MaxSid == 2
\* Requests being handled at the same time.
MaxInFlight == 2
\* Half hours the clock may advance.
MaxTicks == 2
\* Requests the server receives in all.
MaxRequests == 3
\* Requests the server receives in all while the clock runs.
MaxClockRequests == 2
\* Requests the server receives in all in the longer interleavings.
MaxRaceRequests == 4

(* ----------------------- constants of the program ---------------------- *)

saltRounds == 12

\* Milliseconds.
sessionExpireTime == 1000 * 60 * 60

(* ------------------------------ strings -------------------------------- *)
\* A string is the sequence of its characters; a field the form did not
\* send is Undefined.

Undefined == <<"undefined">>

Rep(c, n) == [k \in 1..n |-> c]

Letters == {"a", "b", "l", "x", "i", "o", "p", "w", "A"}
Digits == {"1", "2"}
AlNum == Letters \cup Digits

NameAl == <<"A", "l">>
NameBad == <<"A", " ", "l">>
NameLong == Rep("a", 21)

EmailA == <<"a", "@", "x", ".", "i", "o">>
EmailB == <<"b", "@", "x", ".", "i", "o">>
EmailBad == <<"a", "x", ".", "i", "o">>
EmailLong == Rep("a", 25) \o <<"@", "x", ".", "i", "o">> \o <<"o">>

Pw1 == <<"p", "w", "1">>
Pw2 == <<"p", "w", "2">>
PwLong == Rep("p", 21)

\* The form bodies requests carry: the well-formed ones, and one that
\* breaks each rule of the schema.
SignupBodies ==
    {<<NameAl, EmailA, Pw1>>, <<NameAl, EmailB, Pw1>>, <<NameAl, EmailB, Pw2>>,
     <<Undefined, EmailB, Pw1>>, <<NameBad, EmailB, Pw1>>, <<NameLong, EmailB, Pw1>>,
     <<NameAl, Undefined, Pw1>>, <<NameAl, EmailBad, Pw1>>, <<NameAl, EmailLong, Pw1>>,
     <<NameAl, EmailB, Undefined>>, <<NameAl, EmailB, PwLong>>}

LoginBodies ==
    {<<EmailA, Pw1>>, <<EmailA, Pw2>>, <<EmailB, Pw1>>, <<EmailB, Pw2>>,
     <<Undefined, Pw1>>, <<EmailBad, Pw1>>, <<EmailLong, Pw1>>,
     <<EmailB, Undefined>>, <<EmailB, PwLong>>}

(* ------------------------------- Joi ----------------------------------- *)

\* Joi.string().required(): present and not the empty string.
JoiString(s) == s # Undefined /\ Len(s) > 0

JoiAlphanum(s) == \A k \in 1..Len(s) : s[k] \in AlNum

\* Joi.string().email(): one "@", a non-empty local part, and a domain of
\* at least two non-empty segments.
JoiEmail(s) ==
    LET ats == {k \in 1..Len(s) : s[k] = "@"}
    IN  /\ Cardinality(ats) = 1
        /\ LET at == CHOOSE k \in ats : TRUE
               dots == {k \in (at + 1)..Len(s) : s[k] = "."}
           IN  /\ at > 1
               /\ dots # {}
               /\ \A k \in dots : k > at + 1 /\ k < Len(s) /\ (k + 1) \notin dots
               /\ \A k \in 1..Len(s) : s[k] \in AlNum \cup {"@", "."}

signupSchemaMutantAnyPassword(name, email, password) ==
    /\ JoiString(name) /\ JoiAlphanum(name) /\ Len(name) <= 20
    /\ JoiString(email) /\ JoiEmail(email) /\ Len(email) <= 30
    /\ JoiString(password)

signupSchema(name, email, password) ==
    /\ JoiString(name) /\ JoiAlphanum(name) /\ Len(name) <= 20
    /\ JoiString(email) /\ JoiEmail(email) /\ Len(email) <= 30
    /\ JoiString(password) /\ Len(password) <= 20

loginSchema(email, password) ==
    /\ JoiString(email) /\ JoiEmail(email) /\ Len(email) <= 30
    /\ JoiString(password) /\ Len(password) <= 20

(* ------------------------------ bcrypt --------------------------------- *)

Salts == {"s1"}

bcryptHash(password, rounds, salt) ==
    [cost |-> rounds, salt |-> salt, digest |-> password]

bcryptCompare(password, hash) == hash.digest = password

(* ------------------------------- state --------------------------------- *)

VARIABLES
    users,      \* the 1537users collection, in natural (insertion) order
    store,      \* the 1537sessions collection: session id -> stored session
    cookies,    \* the session ids browsers were sent in a Set-Cookie
    reqs,       \* the requests being handled: request id -> request
    updates,    \* updateOne calls issued and not yet carried out
    destroys,   \* store.destroy calls issued and not yet carried out
    now,        \* the clock, in milliseconds
    served,     \* the number of requests received so far
    loggedOut,  \* history: the session ids GET /logout was answered for
    created,    \* history: session id -> the time its session was created
    trip,       \* history: email -> how far a promote followed by a demote
                \* of a user that was no admin has come
    rejected    \* history: the directory operations that failed, each with
                \* the status its request was answered

vars == <<users, store, cookies, reqs, updates, destroys, now, served,
          loggedOut, created, rejected, trip>>

Sids == 1..MaxSid
ReqIds == 1..MaxInFlight

Null == [null |-> TRUE]

NoBody == << >>

With(r, f, v) == [k \in DOMAIN r \cup {f} |-> IF k = f THEN v ELSE r[k]]

Put(m, k, v) == [j \in DOMAIN m \cup {k} |-> IF j = k THEN v ELSE m[j]]

Drop(m, k) == [j \in DOMAIN m \ {k} |-> m[j]]

Least(S) == CHOOSE s \in S : \A t \in S : s <= t

Redirect(location) == [status |-> 302, body |-> location]

Render(status, view) == [status |-> status, body |-> view]

(* --------------------------- User Directory ---------------------------- *)

Matching(coll, email) == {k \in 1..Len(coll) : coll[k].email = email}

\* findOne({email}): the first matching document in natural order, or null.
findOne(coll, email) ==
    IF Matching(coll, email) = {} THEN Null
    ELSE coll[Least(Matching(coll, email))]

insertOneMutantLost(coll, doc) == coll

insertOneMutantFirst(coll, doc) == <<doc>> \o coll

insertOne(coll, doc) == Append(coll, doc)

updateOneMutantAll(coll, email, flag) ==
    [k \in 1..Len(coll) |->
        IF coll[k].email = email
        THEN [name |-> coll[k].name, email |-> email, admin |-> flag]
        ELSE coll[k]]

updateOneMutantUpsert(coll, email, flag) ==
    IF Matching(coll, email) = {}
    THEN Append(coll, [email |-> email, admin |-> flag])
    ELSE LET k == Least(Matching(coll, email))
         IN  [coll EXCEPT ![k] = With(coll[k], "admin", flag)]

\* updateOne({email}, {$set: {admin: flag}}): the first matching document.
updateOne(coll, email, flag) ==
    IF Matching(coll, email) = {} THEN coll
    ELSE LET k == Least(Matching(coll, email))
         IN  [coll EXCEPT ![k] = With(coll[k], "admin", flag)]

\* The admin flag a document stores (a document may have none).
StoredAdmin(doc) == "admin" \in DOMAIN doc /\ doc.admin = TRUE

(* ------------------------------ sessions ------------------------------- *)

HasSession(r) == "id" \in DOMAIN r.session

Authenticated(session) == "user" \in DOMAIN session

loginUserMutantKeepsAdmin(session, user) ==
    With(session, "user",
         [name |-> user.name, email |-> user.email,
          admin |-> IF Authenticated(session) THEN session.user.admin
                    ELSE IF "admin" \in DOMAIN user THEN user.admin ELSE FALSE])

\* req.session.user = {name, email, admin: user.admin ?? false}
loginUser(session, user) ==
    With(session, "user",
         [name |-> user.name, email |-> user.email,
          admin |-> IF "admin" \in DOMAIN user THEN user.admin ELSE FALSE])

authenticatedMiddlewareMutantOpen(session) == "next"

authenticatedMiddleware(session) ==
    IF Authenticated(session) THEN "next" ELSE "redirect"

adminMiddlewareMutantAnyUser(session) ==
    IF Authenticated(session) THEN "next" ELSE "redirect"

adminMiddleware(session) ==
    IF Authenticated(session)
    THEN IF session.user.admin = TRUE THEN "next" ELSE "403"
    ELSE "redirect"

storeGetMutantNoExpiry(sid) == sid \in DOMAIN store

\* connect-mongo get(): the entry, unless it is absent or has expired.
storeGet(sid) == sid \in DOMAIN store /\ store[sid].expires > now

\* Identifiers in use: sent to a browser, stored, held by a request in
\* flight, or awaiting destruction.  generate() draws outside of them.
UsedSids ==
    cookies \cup DOMAIN store \cup destroys
        \cup {reqs[i].sessionID : i \in DOMAIN reqs}

\* The session middleware: inflate the stored session of the cookie's id,
\* or generate a session with a new id.
LoadSession(cookie) ==
    IF cookie # <<>> /\ storeGet(cookie[1])
    THEN store[cookie[1]].session
    ELSE [id |-> Least(Sids \ UsedSids)]

\* The Cookie headers a browser can send: none, or an id it was given.
Cookies == {<<>>} \cup {<<s>> : s \in cookies}

\* A request past the session middleware, before its handler has run.
NewReq(route, cookie) ==
    LET session == LoadSession(cookie)
    IN  [route |-> route, cookie |-> cookie, sessionID |-> session.id,
         session |-> session, pc |-> "handler"]

Answer(r, resp) == With([r EXCEPT !.pc = "end"], "resp", resp)

Await(r, pc) == [r EXCEPT !.pc = pc]

\* The session was generated by this request (no cookie, or a cookie whose
\* session the store no longer gave).
isNewSession(r) == r.cookie = <<>> \/ r.cookie[1] # r.sessionID

isModified(r) == r.session # [id |-> r.sessionID]

\* saveUninitialized: false keeps an untouched new session out of the
\* store; resave: true writes a loaded session back on every response.
shouldSave(r) ==
    /\ HasSession(r)
    /\ (isNewSession(r) => isModified(r))

touchMutantNoClock(t) == sessionExpireTime

\* Session.touch(): cookie.expires = now + cookie.originalMaxAge
touch(t) == t + sessionExpireTime

(* ------------------------------- Init ---------------------------------- *)

\* The emails promote and demote requests name.
TargetEmails == {EmailA, EmailB}

\* No route creates the first admin: the collection starts with one that
\* was granted the flag in the database.
SeedAdmin ==
    [name |-> NameAl, email |-> EmailA, admin |-> TRUE,
     passwordHash |-> bcryptHash(Pw1, saltRounds, "s1")]

Init ==
    /\ users = <<SeedAdmin>>
    /\ store = << >>
    /\ cookies = {}
    /\ reqs = << >>
    /\ updates = {}
    /\ destroys = {}
    /\ now = 0
    /\ served = 0
    /\ loggedOut = {}
    /\ created = << >>
    /\ rejected = {}
    /\ trip = [e \in TargetEmails |-> "none"]

(* ------------------------------ handlers ------------------------------- *)
\* What a handler does before its first await: the request it leaves, the
\* updateOne calls it issued and the session ids it asked to destroy.

Out(r, ups, des) == [req |-> r, updates |-> ups, destroys |-> des]

index(r) == Out(Answer(r, Render(200, "index")), {}, {})

signup(r) == Out(Answer(r, Render(200, "signup")), {}, {})

login(r) == Out(Answer(r, Render(200, "login")), {}, {})

notFound(r) == Out(Answer(r, Render(404, "404")), {}, {})

members(r) ==
    IF authenticatedMiddleware(r.session) = "next"
    THEN Out(Answer(r, Render(200, "members")), {}, {})
    ELSE Out(Answer(r, Redirect("/")), {}, {})

\* req.session.destroy() deletes req.session and asks the store to destroy.
logout(r) ==
    Out(Answer([r EXCEPT !.session = [destroyed |-> TRUE]], Redirect("/")),
        {}, {r.sessionID})

signupSubmit(r, body) ==
    IF ~signupSchema(body[1], body[2], body[3])
    THEN Out(Answer(r, Render(200, "signupSubmit: validation error")), {}, {})
    ELSE Out(Await(With(r, "body", [name |-> body[1], email |-> body[2],
                                    password |-> body[3]]),
                   "findOne"), {}, {})

loginSubmitMutantDropsUser(r, body) ==
    IF ~loginSchema(body[1], body[2])
    THEN Out(Answer([r EXCEPT !.session = [id |-> r.sessionID]],
                    Render(200, "loginSubmit: validation error")), {}, {})
    ELSE Out(Await(With(r, "body", [email |-> body[1], password |-> body[2]]),
                   "findOne"), {}, {})

loginSubmit(r, body) ==
    IF ~loginSchema(body[1], body[2])
    THEN Out(Answer(r, Render(200, "loginSubmit: validation error")), {}, {})
    ELSE Out(Await(With(r, "body", [email |-> body[1], password |-> body[2]]),
                   "findOne"), {}, {})

Refuse(r) ==
    IF adminMiddleware(r.session) = "403"
    THEN Out(Answer(r, Render(403, "403")), {}, {})
    ELSE Out(Answer(r, Redirect("/login")), {}, {})

admin(r) ==
    IF adminMiddleware(r.session) = "next"
    THEN Out(Await(r, "find"), {}, {})
    ELSE Refuse(r)

\* An updateOne call the handler issued without awaiting it.
UpdateCall(email, flag) == [email |-> email, admin |-> flag]

\* req.params.email, which the router binds and only the two handlers read.
Params(r, body) == With(r, "params", [email |-> body[1]])

promoteUser(r, body) ==
    IF adminMiddleware(r.session) = "next"
    THEN Out(Answer(Params(r, body), Redirect("/admin")),
             {UpdateCall(body[1], TRUE)}, {})
    ELSE Refuse(r)

demoteUser(r, body) ==
    IF adminMiddleware(r.session) = "next"
    THEN Out(Answer(Params(r, body), Redirect("/admin")),
             {UpdateCall(body[1], FALSE)}, {})
    ELSE Refuse(r)

Handle(route, r, body) ==
    CASE route = "GET /" -> index(r)
      [] route = "GET /signup" -> signup(r)
      [] route = "POST /signupSubmit" -> signupSubmit(r, body)
      [] route = "GET /login" -> login(r)
      [] route = "POST /loginSubmit" -> loginSubmit(r, body)
      [] route = "GET /members" -> members(r)
      [] route = "GET /logout" -> logout(r)
      [] route = "GET /admin" -> admin(r)
      [] route = "POST /admin/promoteUser/:email" -> promoteUser(r, body)
      [] route = "POST /admin/demoteUser/:email" -> demoteUser(r, body)
      [] OTHER -> notFound(r)

AdminRoutes ==
    {"GET /admin", "POST /admin/promoteUser/:email",
     "POST /admin/demoteUser/:email"}

\* An updateOne for the email is issued and not yet carried out.
Pending(email) == \E op \in updates : op.email = email

\* History of promote followed by demote.  A promote issued for a record
\* that is no admin and has no update pending starts a trip, its response
\* moves it on, and a demote issued after that response completes it; any
\* other promote or demote issued for the email ends the trip.
TripIssued(out) ==
    IF out.updates = {} THEN trip
    ELSE LET op == CHOOSE u \in out.updates : TRUE
             target == findOne(users, op.email)
         IN  [trip EXCEPT ![op.email] =
                 IF op.admin
                 THEN IF target # Null /\ ~StoredAdmin(target) /\ ~Pending(op.email)
                      THEN "promoteIssued" ELSE "none"
                 ELSE IF trip[op.email] = "promoteAnswered"
                      THEN "demoteIssued" ELSE "none"]

TripAnswered(r) ==
    IF /\ r.route = "POST /admin/promoteUser/:email"
       /\ r.resp = Redirect("/admin")
       /\ trip[r.params.email] = "promoteIssued"
    THEN [trip EXCEPT ![r.params.email] = "promoteAnswered"]
    ELSE trip

(* ------------------------------ actions -------------------------------- *)

\* A request arrives: the session middleware loads its session and the
\* handler runs up to its first await or to its response.
Arrive(route, cookie, body) ==
    /\ ReqIds \ DOMAIN reqs # {}
    /\ cookie \in Cookies
    /\ (cookie # <<>> /\ storeGet(cookie[1])) \/ Sids \ UsedSids # {}
    /\ LET r == NewReq(route, cookie)
           out == Handle(route, r, body)
       IN  /\ reqs' = Put(reqs, Least(ReqIds \ DOMAIN reqs), out.req)
           /\ updates' = updates \cup out.updates
           /\ destroys' = destroys \cup out.destroys
           /\ trip' = TripIssued(out)
    /\ served' = served + 1
    /\ UNCHANGED <<users, store, cookies, now, loggedOut, created, rejected>>

GetIndex(c) == Arrive("GET /", c, NoBody)

GetSignup(c) == Arrive("GET /signup", c, NoBody)

PostSignupSubmit(c, b) == Arrive("POST /signupSubmit", c, b)

GetLogin(c) == Arrive("GET /login", c, NoBody)

PostLoginSubmit(c, b) == Arrive("POST /loginSubmit", c, b)

GetMembers(c) == Arrive("GET /members", c, NoBody)

GetLogout(c) == Arrive("GET /logout", c, NoBody)

GetAdmin(c) == Arrive("GET /admin", c, NoBody)

PostPromoteUser(c, e) == Arrive("POST /admin/promoteUser/:email", c, <<e>>)

PostDemoteUser(c, e) == Arrive("POST /admin/demoteUser/:email", c, <<e>>)

GetOther(c) == Arrive("GET /other", c, NoBody)

At(i, route, pc) ==
    /\ i \in DOMAIN reqs
    /\ reqs[i].route = route
    /\ reqs[i].pc = pc

Resume(i, r) ==
    /\ reqs' = [reqs EXCEPT ![i] = r]
    /\ UNCHANGED <<store, cookies, updates, destroys, now, served, loggedOut, trip,
                   created>>

\* await findOne({email}) of signupSubmit
signupFindOne(i) ==
    /\ At(i, "POST /signupSubmit", "findOne")
    /\ LET r == reqs[i]
       IN  Resume(i, IF findOne(users, r.body.email) # Null
                     THEN Answer(r, Render(200, "signupSubmit: user already exists"))
                     ELSE Await(r, "hash"))
    /\ UNCHANGED <<users, rejected>>

\* await bcrypt.hash(password, saltRounds), then insertOne is called
signupHash(i, salt) ==
    /\ At(i, "POST /signupSubmit", "hash")
    /\ LET r == reqs[i]
       IN  Resume(i, Await(With(r, "passwordHash",
                                bcryptHash(r.body.password, saltRounds, salt)),
                           "insertOne"))
    /\ UNCHANGED <<users, rejected>>

\* insertOne(...).then(...): the document is in, the session is
\* established, the response redirects
signupInsertOne(i) ==
    /\ At(i, "POST /signupSubmit", "insertOne")
    /\ Len(users) < MaxUsers
    /\ LET r == reqs[i]
       IN  /\ users' = insertOne(users,
                  [name |-> r.body.name, email |-> r.body.email,
                   admin |-> FALSE, passwordHash |-> r.passwordHash])
           /\ Resume(i, Answer([r EXCEPT !.session =
                                   loginUser(r.session, [name |-> r.body.name,
                                                         email |-> r.body.email])],
                               Redirect("/members")))
    /\ UNCHANGED rejected

\* await findOne({email}) of loginSubmit
loginFindOne(i) ==
    /\ At(i, "POST /loginSubmit", "findOne")
    /\ LET r == reqs[i]
           user == findOne(users, r.body.email)
       IN  Resume(i, IF user = Null
                     THEN Answer(r, Render(200, "loginSubmit: no user with that email"))
                     ELSE Await(With(r, "user", user), "compare"))
    /\ UNCHANGED <<users, rejected>>

\* await bcrypt.compare(password, user.passwordHash)
loginCompare(i) ==
    /\ At(i, "POST /loginSubmit", "compare")
    /\ LET r == reqs[i]
       IN  Resume(i, IF ~bcryptCompare(r.body.password, r.user.passwordHash)
                     THEN Answer(r, Render(200, "loginSubmit: incorrect password"))
                     ELSE Answer([r EXCEPT !.session = loginUser(r.session, r.user)],
                                 Redirect("/members")))
    /\ UNCHANGED <<users, rejected>>

\* await find().toArray() of GET /admin
adminFind(i) ==
    /\ At(i, "GET /admin", "find")
    /\ Resume(i, Answer(reqs[i], Render(200, "admin")))
    /\ UNCHANGED <<users, rejected>>

\* The database carries out an updateOne.
ApplyUpdate(op) ==
    /\ op \in updates
    /\ users' = updateOne(users, op.email, op.admin)
    /\ updates' = updates \ {op}
    /\ UNCHANGED <<store, cookies, reqs, destroys, now, served, loggedOut, trip,
                   created, rejected>>

\* The store carries out a destroy.
ApplyDestroy(sid) ==
    /\ sid \in destroys
    /\ store' = Drop(store, sid)
    /\ destroys' = destroys \ {sid}
    /\ UNCHANGED <<users, cookies, reqs, updates, now, served, loggedOut, trip,
                   created, rejected>>

\* res.end(): touch the session, save it, send the response.
End(i) ==
    /\ i \in DOMAIN reqs
    /\ reqs[i].pc = "end"
    /\ LET r == reqs[i]
       IN  IF shouldSave(r)
           THEN /\ store' = Put(store, r.sessionID,
                                [session |-> r.session, expires |-> touch(now)])
                /\ cookies' = cookies \cup {r.sessionID}
                /\ created' = IF isNewSession(r)
                              THEN Put(created, r.sessionID, now)
                              ELSE created
                /\ loggedOut' = loggedOut
           ELSE /\ UNCHANGED <<store, cookies, created>>
                /\ loggedOut' = IF ~HasSession(r) /\ ~isNewSession(r)
                                THEN loggedOut \cup {r.sessionID}
                                ELSE loggedOut
    /\ trip' = TripAnswered(reqs[i])
    /\ reqs' = Drop(reqs, i)
    /\ UNCHANGED <<users, updates, destroys, now, served, rejected>>

HalfHour == sessionExpireTime \div 2

\* Half an hour passes.
Tick ==
    /\ now < MaxTicks * HalfHour
    /\ now' = now + HalfHour
    /\ UNCHANGED <<users, store, cookies, reqs, updates, destroys, served,
                   loggedOut, trip, created, rejected>>

Request ==
    \/ \E c \in Cookies : GetIndex(c)
    \/ \E c \in Cookies : GetSignup(c)
    \/ \E c \in Cookies, b \in SignupBodies : PostSignupSubmit(c, b)
    \/ \E c \in Cookies : GetLogin(c)
    \/ \E c \in Cookies, b \in LoginBodies : PostLoginSubmit(c, b)
    \/ \E c \in Cookies : GetMembers(c)
    \/ \E c \in Cookies : GetLogout(c)
    \/ \E c \in Cookies : GetAdmin(c)
    \/ \E c \in Cookies, e \in TargetEmails : PostPromoteUser(c, e)
    \/ \E c \in Cookies, e \in TargetEmails : PostDemoteUser(c, e)
    \/ \E c \in Cookies : GetOther(c)

Progress ==
    \/ \E i \in ReqIds : signupFindOne(i)
    \/ \E i \in ReqIds, s \in Salts : signupHash(i, s)
    \/ \E i \in ReqIds : signupInsertOne(i)
    \/ \E i \in ReqIds : loginFindOne(i)
    \/ \E i \in ReqIds : loginCompare(i)
    \/ \E i \in ReqIds : adminFind(i)
    \/ \E i \in ReqIds : End(i)
    \/ \E op \in updates : ApplyUpdate(op)
    \/ \E s \in Sids : ApplyDestroy(s)

\* The server with its clock standing still and a database that answers.
Next ==
    \/ served < MaxRequests /\ Request
    \/ Progress

Spec == Init /\ [][Next]_vars

\* The same with the clock running.
NextClock ==
    \/ served < MaxClockRequests /\ Request
    \/ Progress
    \/ Tick

SpecClock == Init /\ [][NextClock]_vars

\* A rejected await in an async handler that has no try/catch.  Express 5
\* passes the rejection to its error handler, which answers 500; Express 4
\* never hears of it and the request stays unanswered.  app.js does not
\* pin the version.
Reject(i, op) ==
    /\ \E answered \in BOOLEAN :
          /\ reqs' = [reqs EXCEPT ![i] =
                 IF answered
                 THEN Answer(reqs[i], Render(500, "Internal Server Error"))
                 ELSE Await(reqs[i], "unanswered")]
          /\ rejected' = rejected \cup
                 {[op |-> op, answered |-> answered,
                   status |-> IF answered THEN 500 ELSE 0]}
    /\ UNCHANGED <<users, store, cookies, updates, destroys, now, served,
                   loggedOut, trip, created>>

signupFindOneFails(i) ==
    /\ At(i, "POST /signupSubmit", "findOne")
    /\ Reject(i, "findOne")

loginFindOneFails(i) ==
    /\ At(i, "POST /loginSubmit", "findOne")
    /\ Reject(i, "findOne")

adminFindFails(i) ==
    /\ At(i, "GET /admin", "find")
    /\ Reject(i, "find")

\* insertOne(...).catch(...): 500 "Internal server error."
signupInsertOneFails(i) ==
    /\ At(i, "POST /signupSubmit", "insertOne")
    /\ Resume(i, Answer(reqs[i], Render(500, "Internal server error.")))
    /\ rejected' = rejected \cup
           {[op |-> "insertOne", answered |-> TRUE, status |-> 500]}
    /\ UNCHANGED users

\* An updateOne of promoteUser or demoteUser fails: nothing awaits it, and
\* its request was answered with the redirect when it was issued.
UpdateFails(op) ==
    /\ op \in updates
    /\ updates' = updates \ {op}
    /\ rejected' = rejected \cup
           {[op |-> "updateOne", answered |-> TRUE,
             status |-> Redirect("/admin").status]}
    /\ UNCHANGED <<users, store, cookies, reqs, destroys, now, served,
                   loggedOut, trip, created>>

\* The client gives up on a request that is never answered.
Abandon(i) ==
    /\ i \in DOMAIN reqs
    /\ reqs[i].pc = "unanswered"
    /\ reqs' = Drop(reqs, i)
    /\ UNCHANGED <<users, store, cookies, updates, destroys, now, served,
                   loggedOut, trip, created, rejected>>

\* The same as Spec with a database that may fail.
NextFail ==
    \/ served < MaxRequests /\ Request
    \/ Progress
    \/ \E i \in ReqIds : signupFindOneFails(i)
    \/ \E i \in ReqIds : signupInsertOneFails(i)
    \/ \E i \in ReqIds : loginFindOneFails(i)
    \/ \E i \in ReqIds : adminFindFails(i)
    \/ \E op \in updates : UpdateFails(op)
    \/ \E i \in ReqIds : Abandon(i)

SpecFail == Init /\ [][NextFail]_vars

\* The same as Spec over longer runs.
NextRace ==
    \/ served < MaxRaceRequests /\ Request
    \/ Progress

SpecRace == Init /\ [][NextRace]_vars

(* ------------------------------- claims -------------------------------- *)

AdminSession(session) ==
    Authenticated(session) /\ session.user.admin = TRUE

\* The requests that arrive in this step.
Arriving == DOMAIN reqs' \ DOMAIN reqs

\* C1: a request on an admin-only route whose session is not an admin's
\* (no user, or a user with admin = false) is answered by the gate, 403 or
\* a redirect to /login: it never waits for the listing, is never shown it,
\* and its arrival issues no update and changes no user.
C1_NonAdminNeverPassesGate ==
    [][\A i \in DOMAIN reqs' :
          LET r == reqs'[i]
          IN  (r.route \in AdminRoutes /\ ~AdminSession(r.session)) =>
                  /\ r.pc = "end"
                  /\ r.resp \in {Render(403, "403"), Redirect("/login")}
                  /\ (i \in Arriving => updates' = updates /\ users' = users)]_vars

C1_Witness ==
    \E i \in DOMAIN reqs :
        /\ reqs[i].route = "POST /admin/promoteUser/:email"
        /\ Authenticated(reqs[i].session)
        /\ reqs[i].session.user.admin = FALSE
        /\ reqs[i].resp = Render(403, "403")

\* C2: the User Directory never holds two records with the same email.
C2_OneUserPerEmail ==
    \A j, k \in 1..Len(users) :
        j # k => users[j].email # users[k].email

\* C3: once GET /logout has been answered for a session id and the store
\* has destroyed it, no request that arrives later with that id in its
\* cookie is given the stored session.
C3_LoggedOutNeverAuthorizes ==
    [][\A i \in Arriving :
          LET r == reqs'[i]
          IN  (/\ r.cookie # <<>>
               /\ r.cookie[1] \in loggedOut
               /\ r.cookie[1] \notin destroys) => isNewSession(r)]_vars

\* The records of the directory that a login body matches.
Verified(body) ==
    {k \in 1..Len(users) :
        /\ users[k].email = body.email
        /\ bcryptCompare(body.password, users[k].passwordHash)}

\* The login requests answered in this step.
LoginAnswered ==
    {i \in DOMAIN reqs' :
        /\ reqs'[i].route = "POST /loginSubmit"
        /\ reqs'[i].pc = "end"
        /\ (i \in DOMAIN reqs => reqs[i].pc # "end")}

\* C4: a login request is answered with a session payload and a redirect
\* to /members if and only if a record with its email exists whose hash
\* verifies its password; otherwise its session is left as it was loaded.
C4_LoginIffVerified ==
    [][\A i \in LoginAnswered :
          LET r == reqs'[i]
              before == IF i \in DOMAIN reqs THEN reqs[i].session
                        ELSE LoadSession(r.cookie)
          IN  IF "body" \in DOMAIN r /\ Verified(r.body) # {}
              THEN /\ r.resp = Redirect("/members")
                   /\ Authenticated(r.session)
                   /\ r.session.user.email = r.body.email
              ELSE /\ r.resp # Redirect("/members")
                   /\ r.session = before]_vars

\* C5: carrying out a promote or demote changes no session, stored or in
\* flight; and the admin flag a stored session holds for a user changes
\* only when a successful login of that session is answered.
C5_SessionFlagChangesOnlyAtLogin ==
    [][/\ (updates' # updates /\ reqs' = reqs) =>
              store' = store
       /\ \A s \in DOMAIN store \cap DOMAIN store' :
              (/\ store'[s].session.user.email = store[s].session.user.email
               /\ store'[s].session.user.admin # store[s].session.user.admin) =>
                  \E i \in DOMAIN reqs \ DOMAIN reqs' :
                      /\ reqs[i].route = "POST /loginSubmit"
                      /\ reqs[i].resp = Redirect("/members")
                      /\ reqs[i].sessionID = s]_vars

\* The promote and demote requests admitted in this step.
Admitted ==
    {i \in Arriving :
        /\ reqs'[i].route \in AdminRoutes \ {"GET /admin"}
        /\ reqs'[i].resp = Redirect("/admin")}

C7_ExpiryFixedAtCreation ==
    \A s \in DOMAIN store :
        store[s].expires = created[s] + sessionExpireTime

\* The requests answered for good in this step.
Ended == DOMAIN reqs \ DOMAIN reqs'

\* C7 as amended: the expiry is an absolute timestamp that every response
\* to a request carrying the session sets anew, to the time of the response
\* plus one hour; a cookie's session is given to a request exactly while
\* the clock is before that timestamp.
C7_ExpiryMovesWithEveryResponse ==
    [][/\ \A i \in Ended :
              (HasSession(reqs[i]) /\ ~isNewSession(reqs[i])) =>
                  /\ reqs[i].sessionID \in DOMAIN store'
                  /\ store'[reqs[i].sessionID].expires = now + sessionExpireTime
       /\ \A s \in DOMAIN store' :
              (s \notin DOMAIN store \/ store'[s] # store[s]) =>
                  store'[s].expires = now + sessionExpireTime
       /\ \A i \in Arriving :
              reqs'[i].cookie # <<>> =>
                  (~isNewSession(reqs'[i]) <=>
                      /\ reqs'[i].cookie[1] \in DOMAIN store
                      /\ now < store[reqs'[i].cookie[1]].expires)]_vars

\* A stored session that expires later than one hour after its creation.
C7_Witness ==
    \E s \in DOMAIN store :
        store[s].expires > created[s] + sessionExpireTime

\* The cookie names a stored session whose expiry has passed.
Expired(cookie) ==
    /\ cookie # <<>>
    /\ cookie[1] \in DOMAIN store
    /\ store[cookie[1]].expires <= now

\* The bodies a request of a route may carry.
Bodies(route) ==
    CASE route = "POST /signupSubmit" -> SignupBodies
      [] route = "POST /loginSubmit" -> LoginBodies
      [] route \in AdminRoutes \ {"GET /admin"} -> {<<e>> : e \in TargetEmails}
      [] OTHER -> {NoBody}

\* C8: on every route a request whose cookie names an expired session is
\* handled as the same request without a cookie is: it leaves the same
\* request (but for the cookie it carried), issues the same calls, has no
\* user, and is not answered with an error.
C8_ExpiredSessionIsAnonymous ==
    [][\A i \in Arriving :
          LET r == reqs'[i]
          IN  Expired(r.cookie) =>
                  /\ ~Authenticated(r.session)
                  /\ r.pc = "end" => r.resp.status \in {200, 302, 404}
                  /\ \E b \in Bodies(r.route) :
                        LET anon == Handle(r.route, NewReq(r.route, <<>>), b)
                        IN  /\ r = [anon.req EXCEPT !.cookie = r.cookie]
                            /\ updates' = updates \cup anon.updates
                            /\ destroys' = destroys \cup anon.destroys]_vars

C8_Witness ==
    \E i \in DOMAIN reqs :
        /\ Expired(reqs[i].cookie)
        /\ reqs[i].route = "GET /members"
        /\ reqs[i].resp = Redirect("/")

\* The signup requests whose insert completes in this step.
SignupCompleted ==
    {i \in DOMAIN reqs \cap DOMAIN reqs' :
        /\ reqs[i].route = "POST /signupSubmit"
        /\ reqs[i].pc = "insertOne"
        /\ reqs'[i].pc = "end"
        /\ users' # users}

\* C9: when a valid signup whose email was not found completes, the
\* directory holds exactly one record with that email, with admin = false,
\* the session payload is {name, email, admin: false} and the response
\* redirects to /members; until the insert the session has no such payload.
C9_FreshSignupLeavesOneRecord ==
    [][/\ \A i \in SignupCompleted :
              LET r == reqs'[i]
              IN  /\ Cardinality(Matching(users', r.body.email)) = 1
                  /\ findOne(users', r.body.email).admin = FALSE
                  /\ r.session.user = [name |-> r.body.name,
                                       email |-> r.body.email, admin |-> FALSE]
                  /\ r.resp = Redirect("/members")
       /\ \A i \in DOMAIN reqs \cap DOMAIN reqs' :
              (reqs[i].route = "POST /signupSubmit" /\ i \notin SignupCompleted)
                  => reqs'[i].session = reqs[i].session]_vars

\* C10, for the two directory writes, whose failure app.js itself handles:
\* a failed insertOne or updateOne has its request answered 500.
C10_FailedWriteAnswered500 ==
    \A f \in rejected :
        f.op \in {"insertOne", "updateOne"} => f.status = 500

\* The promote and demote requests whose redirect is sent in this step.
RedirectSent ==
    {i \in Ended :
        /\ reqs[i].route \in AdminRoutes \ {"GET /admin"}
        /\ reqs[i].resp = Redirect("/admin")}

\* The flag a promote or demote request asks for.
Asked(r) == r.route = "POST /admin/promoteUser/:email"

\* C11: when the redirect of a promote or demote is sent, the record with
\* the target email already holds the flag the request asked for.
C11_UpdateDoneWhenRedirectSent ==
    [][\A i \in RedirectSent :
          LET target == findOne(users, reqs[i].params.email)
          IN  target # Null => StoredAdmin(target) = Asked(reqs[i])]_vars

\* C12: after a promote of a user that was no admin has been answered and
\* a demote of the same email has then been issued, the user's stored flag
\* is false once no update for that email is pending.
C12_PromoteThenDemoteLeavesFalse ==
    \A e \in TargetEmails :
        (trip[e] = "demoteIssued" /\ ~Pending(e)) =>
            ~StoredAdmin(findOne(users, e))

\* The login requests in this step that are answered without the redirect.
LoginFailed == {i \in LoginAnswered : reqs'[i].resp # Redirect("/members")}

LoginFailureViews ==
    {"loginSubmit: validation error", "loginSubmit: no user with that email",
     "loginSubmit: incorrect password"}

\* C13: a login request holds the session it was given on arrival until it
\* is answered with the redirect; one that fails is answered 200 with the
\* form, its step changes no user, and its response stores the payload it
\* was given (none, and no new session, for an anonymous requester).
C13_FailedLoginChangesNothing ==
    [][/\ \A i \in Arriving :
              reqs'[i].route = "POST /loginSubmit" =>
                  reqs'[i].session = LoadSession(reqs'[i].cookie)
       /\ \A i \in DOMAIN reqs \cap DOMAIN reqs' :
              (/\ reqs[i].route = "POST /loginSubmit"
               /\ reqs'[i].session # reqs[i].session) =>
                  reqs'[i].resp = Redirect("/members")
       /\ \A i \in LoginFailed :
              /\ reqs'[i].resp.status = 200
              /\ reqs'[i].resp.body \in LoginFailureViews
              /\ users' = users
       /\ \A i \in Ended :
              (/\ reqs[i].route = "POST /loginSubmit"
               /\ reqs[i].resp # Redirect("/members")) =>
                  IF isNewSession(reqs[i])
                  THEN store' = store /\ cookies' = cookies
                  ELSE store'[reqs[i].sessionID].session = reqs[i].session]_vars

\* An authenticated requester whose login was refused for its password.
C13_Witness ==
    \E i \in DOMAIN reqs :
        /\ reqs[i].route = "POST /loginSubmit"
        /\ Authenticated(reqs[i].session)
        /\ reqs[i].pc = "end"
        /\ reqs[i].resp = Render(200, "loginSubmit: incorrect password")

\* The updateOne calls carried out in this step.
CarriedOut == updates \ updates'

\* C14: a promote or demote through an admin session whose email matches
\* no record is answered with a redirect to /admin, and neither its arrival
\* nor carrying out its update creates or changes a record.
C14_AbsentTargetIsNoOp ==
    [][/\ \A i \in Arriving :
              LET r == reqs'[i]
              IN  (/\ r.route \in AdminRoutes \ {"GET /admin"}
                   /\ AdminSession(r.session)
                   /\ Matching(users, r.params.email) = {}) =>
                      /\ r.pc = "end"
                      /\ r.resp = Redirect("/admin")
                      /\ users' = users
       /\ \A op \in CarriedOut :
              Matching(users, op.email) = {} => users' = users]_vars

\* A promote of an email no record has, answered with the redirect, its
\* update carried out.
C14_Witness ==
    \E i \in DOMAIN reqs :
        /\ reqs[i].route = "POST /admin/promoteUser/:email"
        /\ reqs[i].pc = "end"
        /\ reqs[i].resp = Redirect("/admin")
        /\ Matching(users, reqs[i].params.email) = {}
        /\ ~Pending(reqs[i].params.email)

\* C15: the gates answer an arriving request so: GET /members without a
\* user redirects to /; an admin-only route without a user redirects to
\* /login and with a user that is no admin renders 403; a path no route
\* maps renders 404; and a request without a user is never answered with a
\* server error by a gate.
C15_GateResponses ==
    [][\A i \in Arriving :
          LET r == reqs'[i]
          IN  /\ (r.route = "GET /members" /\ ~Authenticated(r.session)) =>
                     r.pc = "end" /\ r.resp = Redirect("/")
              /\ (r.route \in AdminRoutes /\ ~Authenticated(r.session)) =>
                     r.pc = "end" /\ r.resp = Redirect("/login")
              /\ (/\ r.route \in AdminRoutes
                  /\ Authenticated(r.session)
                  /\ ~AdminSession(r.session)) =>
                     r.pc = "end" /\ r.resp = Render(403, "403")
              /\ r.route = "GET /other" =>
                     r.pc = "end" /\ r.resp = Render(404, "404")
              /\ (~Authenticated(r.session) /\ r.pc = "end") =>
                     r.resp.status < 500]_vars

\* An anonymous GET /admin redirected to /login, beside a request for an
\* unmapped path answered 404.
C15_Witness ==
    /\ \E i \in DOMAIN reqs :
          /\ reqs[i].route = "GET /admin"
          /\ ~Authenticated(reqs[i].session)
          /\ reqs[i].resp = Redirect("/login")
    /\ \E i \in DOMAIN reqs :
          /\ reqs[i].route = "GET /other"
          /\ reqs[i].resp = Render(404, "404")

\* The signup bodies the claim has refused.
Refused(name, email, password) ==
    \/ Undefined \in {name, email, password}
    \/ ~JoiAlphanum(name) \/ Len(name) > 20
    \/ ~JoiEmail(email) \/ Len(email) > 30
    \/ Len(password) > 20

SignupFailureViews ==
    {"signupSubmit: validation error", "signupSubmit: user already exists"}

\* C16: a signup request goes on to the lookup only with a body that passes
\* every rule, and is otherwise answered 200 with the validation error on
\* arrival; a lookup that finds its email answers 200 with the conflict
\* message; neither changes the session or a user, no record is inserted
\* but by a request that ends with the redirect, and the response of a
\* refused request stores the payload the request was given.
C16_RefusedSignupChangesNothing ==
    [][/\ \A i \in Arriving :
              LET r == reqs'[i]
              IN  r.route = "POST /signupSubmit" =>
                      /\ r.session = LoadSession(r.cookie)
                      /\ users' = users
                      /\ IF r.pc = "end"
                         THEN r.resp = Render(200, "signupSubmit: validation error")
                         ELSE ~Refused(r.body.name, r.body.email, r.body.password)
       /\ \A i \in DOMAIN reqs \cap DOMAIN reqs' :
              (/\ reqs[i].route = "POST /signupSubmit"
               /\ reqs[i].pc = "findOne"
               /\ reqs'[i] # reqs[i]
               /\ Matching(users, reqs[i].body.email) # {}) =>
                  /\ reqs'[i].pc = "end"
                  /\ reqs'[i].resp = Render(200, "signupSubmit: user already exists")
                  /\ reqs'[i].session = reqs[i].session
                  /\ users' = users
       /\ Len(users') # Len(users) => SignupCompleted # {}
       /\ \A i \in SignupCompleted : reqs'[i].resp = Redirect("/members")
       /\ \A i \in Ended :
              (/\ reqs[i].route = "POST /signupSubmit"
               /\ reqs[i].resp.status = 200) =>
                  /\ reqs[i].resp.body \in SignupFailureViews
                  /\ IF isNewSession(reqs[i])
                     THEN store' = store /\ cookies' = cookies
                     ELSE store'[reqs[i].sessionID].session = reqs[i].session]_vars

\* An authenticated requester whose signup named an email that is taken.
C16_Witness ==
    \E i \in DOMAIN reqs :
        /\ reqs[i].route = "POST /signupSubmit"
        /\ Authenticated(reqs[i].session)
        /\ reqs[i].pc = "end"
        /\ reqs[i].resp = Render(200, "signupSubmit: user already exists")

\* The two documents differ in nothing but the admin flag.
SameButAdmin(a, b) ==
    /\ DOMAIN a \cup {"admin"} = DOMAIN b \cup {"admin"}
    /\ \A f \in DOMAIN a \ {"admin"} : a[f] = b[f]

\* C17: carrying out the update of a promote or demote changes at most one
\* record, one with the email it names, and of that record nothing but the
\* admin flag, which becomes the flag asked for; carrying the same update
\* out again changes nothing more.
C17_UpdateIdempotentAndScoped ==
    [][\A op \in CarriedOut :
          /\ Len(users') = Len(users)
          /\ \A k \in 1..Len(users) :
                /\ SameButAdmin(users[k], users'[k])
                /\ users'[k] # users[k] =>
                      /\ users[k].email = op.email
                      /\ users'[k].admin = op.admin
          /\ Cardinality({k \in 1..Len(users) : users'[k] # users[k]}) <= 1
          /\ updateOne(users', op.email, op.admin) = users']_vars

\* A promote carried out on a record that was no admin, beside a record
\* with another email.
C17_Witness ==
    /\ Len(users) > 1
    /\ \E k \in 1..Len(users) :
          /\ users[k].email = EmailB
          /\ StoredAdmin(users[k])
    /\ StoredAdmin(users[1])

\* The session payloads there are: stored, or held by a request.
Payloads ==
    {store[s].session.user :
        s \in {t \in DOMAIN store : Authenticated(store[t].session)}}
    \cup {reqs[i].session.user :
        i \in {j \in DOMAIN reqs : Authenticated(reqs[j].session)}}

\* C18: every session payload carries the name and the email of a record
\* of the directory.
C18_PayloadNamesARecord ==
    \A u \in Payloads :
        \E k \in 1..Len(users) :
            users[k].name = u.name /\ users[k].email = u.email

\* A payload written by a signup and one written by a login.
C18_Witness ==
    /\ \E u \in Payloads : u.email = EmailA
    /\ \E u \in Payloads : u.email = EmailB

\* C19: no step removes a record or changes the name, the email or the
\* passwordHash of one; a step adds records at the end or changes admin
\* flags, nothing else.
C19_RecordsOnlyGrow ==
    [][/\ Len(users') >= Len(users)
       /\ \A k \in 1..Len(users) :
              /\ users'[k].name = users[k].name
              /\ users'[k].email = users[k].email
              /\ users'[k].passwordHash = users[k].passwordHash]_vars

\* A record was added and the flag of an older one changed.
C19_Witness ==
    /\ Len(users) > 1
    /\ ~StoredAdmin(users[1])

\* The login requests answered with the redirect in this step.
LoginSucceeded == LoginAnswered \ LoginFailed

\* C20: a signup that completes leaves the session with the payload
\* {name, email, admin: false} of its body, and a login that succeeds with
\* the name, email and admin flag of the record it read (false when the
\* record has none), whatever payload the session had before; the
\* response stores that session.
C20_PayloadReplacedWhole ==
    [][/\ \A i \in SignupCompleted :
              reqs'[i].session =
                  [id |-> reqs[i].sessionID,
                   user |-> [name |-> reqs[i].body.name,
                             email |-> reqs[i].body.email, admin |-> FALSE]]
       /\ \A i \in LoginSucceeded :
              /\ i \in DOMAIN reqs /\ reqs[i].pc = "compare"
              /\ reqs'[i].session =
                     [id |-> reqs[i].sessionID,
                      user |-> [name |-> reqs[i].user.name,
                                email |-> reqs[i].user.email,
                                admin |-> "admin" \in DOMAIN reqs[i].user
                                              /\ reqs[i].user.admin]]
       /\ \A i \in Ended :
              (/\ reqs[i].route \in {"POST /signupSubmit", "POST /loginSubmit"}
               /\ reqs[i].resp = Redirect("/members")) =>
                  store'[reqs[i].sessionID].session = reqs[i].session]_vars

\* A signup completed on the session of an admin: the stored payload still
\* has admin = true, the request's has the new user with admin = false.
C20_Witness ==
    \E i \in DOMAIN reqs :
        /\ reqs[i].route = "POST /signupSubmit"
        /\ reqs[i].pc = "end"
        /\ reqs[i].resp = Redirect("/members")
        /\ reqs[i].sessionID \in DOMAIN store
        /\ AdminSession(store[reqs[i].sessionID].session)
        /\ reqs[i].session.user.email = EmailB
        /\ reqs[i].session.user.admin = FALSE

====
